---- MODULE Spec2Model ----
(***************************************************************************)
(* Blackjack environment (blackjack.py) and the two tabular agents that    *)
(* drive it: MonteCarloWithExploringStarts (montecarlo.py) and             *)
(* BlackjackQLearning (qlearning.py).                                      *)
(*                                                                         *)
(* Spec      : one agent object, its train() and play() calls, and the     *)
(*             BlackjackGame each of their games creates.                  *)
(* SpecHands : the static hand functions applied to bounded hands.         *)
(***************************************************************************)
EXTENDS Integers, Sequences, FiniteSets, TLC

(***************************************************************************)
(* Bounds of the model.                                                    *)
(***************************************************************************)
\* the first VariedGames games of a train() call draw their shuffle and
\* their random choices from the whole bounded families; the later games of
\* the call draw the one shuffle TailTop and never explore
VariedGames == 2
\* how many of the listed shuffles the games of train() draw from
NumTrainShuffles == 4
\* how many of the listed shuffles the games of play() draw from
NumPlayShuffles == 9
\* SpecHands: longest hand handed to the static hand functions
MaxHandLen == 3
\* fixed-point resolution of the Q-Learning table (entries are multiples
\* of 1/QScale)
QScale == 10000

(***************************************************************************)
(* Cards and the deck: blackjack.py                                        *)
(***************************************************************************)
numbers == <<"2", "3", "4", "5", "6", "7", "8", "9", "10", "J", "Q", "K", "A">>
suits == <<"hearts", "diamonds", "clubs", "spades">>

Range(s) == {s[i] : i \in DOMAIN s}

\* deck = [{'number': number, 'suit': suit} for number in numbers for suit in suits]
generate_deck ==
  [i \in 1..(Len(numbers) * Len(suits)) |->
     [number |-> numbers[((i - 1) \div Len(suits)) + 1],
      suit   |-> suits[((i - 1) % Len(suits)) + 1]]]

\* int(card['number']) of a card that is neither a face card nor an ace
int(s) == CHOOSE n \in 2..10 : ToString(n) = s

RECURSIVE ValueLoop(_, _, _)
\* the for loop of hand_value: <<value, aces>> after the cards i..Len(hand)
ValueLoop(hand, i, acc) ==
  IF i > Len(hand) THEN acc
  ELSE LET n == hand[i].number IN
       ValueLoop(hand, i + 1,
                 IF n \in {"J", "Q", "K"} THEN <<acc[1] + 10, acc[2]>>
                 ELSE IF n = "A" THEN <<acc[1] + 11, acc[2] + 1>>
                 ELSE <<acc[1] + int(n), acc[2]>>)

\* an if in place of the while: at most one ace is recounted
AceLoop_once(value, aces) == IF value > 21 /\ aces # 0 THEN value - 10 ELSE value

RECURSIVE AceLoop(_, _)
\* while value > 21 and aces: value -= 10; aces -= 1
AceLoop(value, aces) ==
  IF value > 21 /\ aces # 0 THEN AceLoop(value - 10, aces - 1) ELSE value

RECURSIVE EagerLoop(_, _, _)
EagerLoop(hand, i, v) ==
  IF i > Len(hand) THEN v
  ELSE LET n == hand[i].number IN
       EagerLoop(hand, i + 1,
                 IF n \in {"J", "Q", "K"} THEN v + 10
                 ELSE IF n = "A" THEN (IF v + 11 <= 21 THEN v + 11 ELSE v + 1)
                 ELSE v + int(n))

\* hand_value with the ace decided when it is met: 11 if that does not bust
\* the cards seen so far, else 1, and never recounted
hand_value_eager(hand) == EagerLoop(hand, 1, 0)

hand_value(hand) ==
  LET acc == ValueLoop(hand, 1, <<0, 0>>) IN AceLoop(acc[1], acc[2])

Min(a, b) == IF a < b THEN a ELSE b

RECURSIVE UsableLoop(_, _, _)
\* the for loop of has_usable_ace: <<value, ace>> after the cards i..Len(hand)
UsableLoop(hand, i, acc) ==
  IF i > Len(hand) THEN acc
  ELSE LET n == hand[i].number IN
       UsableLoop(hand, i + 1,
                  <<acc[1] + Min(10, IF n \notin {"J", "Q", "K", "A"} THEN int(n) ELSE 11),
                    acc[2] \/ (n = "A")>>)

\* BlackjackQLearning.has_usable_ace
has_usable_ace(hand) ==
  LET acc == UsableLoop(hand, 1, <<0, FALSE>>) IN
  IF acc[2] /\ acc[1] + 10 <= 21 THEN 1 ELSE 0

\* MonteCarloWithExploringStarts.has_usable_ace
MC_has_usable_ace(hand) ==
  LET acc == UsableLoop(hand, 1, <<0, FALSE>>) IN
  IF acc[2] /\ acc[1] + 10 <= 21 THEN 1 ELSE 0

\* game_status() of a game whose player hand is hand
game_status(hand) ==
  LET player_value == hand_value(hand) IN
  IF player_value > 21 THEN "player_bust"
  ELSE IF player_value = 21 THEN "player_blackjack"
  ELSE "continue"

(***************************************************************************)
(* random.shuffle(self.deck): the shuffles the model draws from.  A        *)
(* shuffle is named by the ranks that end up on top of the deck; the rest  *)
(* of the deck keeps the order of generate_deck.                           *)
(***************************************************************************)
Occurrences(ranks, i) == Cardinality({j \in 1..i : ranks[j] = ranks[i]})

\* the cards a sequence of ranks stands for: the k-th card of a rank takes
\* the k-th suit
CardsOf(ranks) ==
  [i \in DOMAIN ranks |-> [number |-> ranks[i], suit |-> suits[Occurrences(ranks, i)]]]

Reverse(s) == [i \in DOMAIN s |-> s[Len(s) + 1 - i]]

\* the permutation of generate_deck whose pops return top[1], top[2], ...
Stack(top) ==
  SelectSeq(generate_deck, LAMBDA c : c \notin Range(top)) \o Reverse(top)

Tops ==
  << <<"A", "K", "9", "7", "5", "6", "K", "7", "K", "3", "4", "2">>,
     <<"5", "6", "K", "7", "A", "5", "6", "K", "K", "4", "9", "2">>,
     <<"K", "6", "K", "6", "K", "9", "10", "9", "9", "8", "7", "2">>,
     <<"10", "8", "9", "9", "2", "3", "4", "5", "6", "7", "8", "A">>,
     <<"A", "A", "K", "Q", "A", "Q", "J", "7", "9", "5", "3", "2">>,
     <<"9", "2", "5", "A", "7", "7", "10", "6", "7", "K", "8", "4">>,
     <<"K", "Q", "A", "J", "8", "3", "2", "2", "A", "9", "10", "6">>,
     <<"4", "3", "8", "8", "J", "5", "6", "5", "5", "A", "K", "3">>,
     <<"7", "A", "6", "A", "3", "A", "4", "10", "2", "6", "Q", "9">>,
     <<"Q", "2", "7", "10", "6", "6", "A", "4", "9", "K", "2", "8">> >>

TailTop == <<"K", "Q", "K", "7", "J", "10", "9", "8", "2", "3", "4", "5">>

TrainShuffles == {Stack(CardsOf(Tops[i])) : i \in 1..Min(NumTrainShuffles, Len(Tops))}
PlayShuffles == {Stack(CardsOf(Tops[i])) : i \in 1..Min(NumPlayShuffles, Len(Tops))}
TailShuffle == Stack(CardsOf(TailTop))

(***************************************************************************)
(* State                                                                   *)
(***************************************************************************)
VARIABLES
  agent,          \* "mc": MonteCarloWithExploringStarts, "ql": BlackjackQLearning
  trained,        \* a train() call of this agent has returned
  Q,              \* BlackjackQLearning.Q: index -> entry * QScale, 0 where absent
  mcQ,            \* MonteCarloWithExploringStarts.Q: state -> (action -> mean)
  returns,        \* MonteCarloWithExploringStarts.returns: (state, action) -> list
  policy,         \* MonteCarloWithExploringStarts.policy: state -> action or None
  op,             \* the call in progress or just ended: "none", "train", "play"
  pc,             \* position inside the call
  episodes,       \* argument of train()
  one_percent,    \* local of train()
  ep,             \* loop variable of train()
  games,          \* games of this call that reached game_result()
  raised,         \* exception the call ended with, "none" if it did not raise
  result,         \* last value of game_result()
  deck,           \* BlackjackGame.deck, top of the deck last
  player_hand,    \* BlackjackGame.player_hand
  dealer_hand,    \* BlackjackGame.dealer_hand
  dealt,          \* history: the cards deal_card() returned, in order
  pa_calls,       \* history: player_action() calls on this game
  starts,         \* history: start_game() calls on this game
  status,         \* locals of train() / play()
  action,
  player_sum,
  usable_ace,
  dealer_card,
  new_player_sum,
  new_usable_ace,
  episode,        \* local of generate_episode()
  updates,        \* history: the update() calls of this game's train() iteration
  hand,           \* SpecHands: the hand given to the hand functions
  evaluated       \* SpecHands: what the hand functions returned, and for which hand

tables == <<Q, mcQ, returns, policy>>
callVars == <<op, episodes, one_percent, ep, games, raised, result>>
gameVars == <<deck, player_hand, dealer_hand, dealt, pa_calls, starts>>
locals == <<status, action, player_sum, usable_ace, dealer_card, new_player_sum,
            new_usable_ace, episode, updates>>
handVars == <<hand, evaluated>>
vars == <<agent, trained, tables, pc, callVars, gameVars, locals, handVars>>

(***************************************************************************)
(* BlackjackGame operations on (deck, hands)                               *)
(***************************************************************************)
\* the cards n successive deal_card() calls return: self.deck.pop()
Pops(d, n) == [i \in 1..n |-> d[Len(d) + 1 - i]]
\* deal_card() that reads the top card and leaves it on the deck
Rest_keep(d, n) == d

\* the deck after n deal_card() calls
Rest(d, n) == SubSeq(d, 1, Len(d) - n)

RECURSIVE DealerDraws_below16(_, _)
\* dealer_action() that stops one short: while hand_value(dealer_hand) < 16
DealerDraws_below16(d, dh) ==
  IF hand_value(dh) < 16
  THEN IF Len(d) = 0 THEN -1
       ELSE LET more == DealerDraws_below16(SubSeq(d, 1, Len(d) - 1), Append(dh, d[Len(d)])) IN
            IF more = -1 THEN -1 ELSE more + 1
  ELSE 0

RECURSIVE DealerDraws(_, _)
\* number of cards dealer_action() draws: while hand_value(dealer_hand) < 17;
\* -1 when deal_card() is reached with an empty deck (IndexError)
DealerDraws(d, dh) ==
  IF hand_value(dh) < 17
  THEN IF Len(d) = 0 THEN -1
       ELSE LET more == DealerDraws(Rest(d, 1), Append(dh, d[Len(d)])) IN
            IF more = -1 THEN -1 ELSE more + 1
  ELSE 0

RECURSIVE DealerDraws_upto17(_, _)
\* number of cards drawn by a dealer who also draws on 17
DealerDraws_upto17(d, dh) ==
  IF hand_value(dh) <= 17
  THEN IF Len(d) = 0 THEN -1
       ELSE LET more == DealerDraws_upto17(SubSeq(d, 1, Len(d) - 1), Append(dh, d[Len(d)])) IN
            IF more = -1 THEN -1 ELSE more + 1
  ELSE 0

\* dealer_action() of a dealer who also draws on 17
dealer_action_hit17(d, dh) ==
  LET n == DealerDraws_upto17(d, dh) IN
  IF n = -1 THEN [ok |-> FALSE, deck |-> d, dealer_hand |-> dh, drawn |-> <<>>]
  ELSE [ok |-> TRUE, deck |-> SubSeq(d, 1, Len(d) - n),
        dealer_hand |-> dh \o [i \in 1..n |-> d[Len(d) + 1 - i]],
        drawn |-> [i \in 1..n |-> d[Len(d) + 1 - i]]]

\* dealer_action() on the deck d and the dealer hand dh; ok is FALSE when
\* deal_card() raises
dealer_action(d, dh) ==
  LET n == DealerDraws(d, dh) IN
  IF n = -1 THEN [ok |-> FALSE, deck |-> d, dealer_hand |-> dh, drawn |-> <<>>]
  ELSE [ok |-> TRUE, deck |-> Rest(d, n), dealer_hand |-> dh \o Pops(d, n),
        drawn |-> Pops(d, n)]

\* the comparison with the dealer's bust tested before the player's
Compare_dealer_first(player_value, dealer_value) ==
  IF dealer_value > 21 \/ (player_value > dealer_value /\ player_value <= 21) THEN "win"
  ELSE IF player_value > 21 THEN "loss"
  ELSE IF player_value = dealer_value THEN "draw"
  ELSE "loss"

\* the comparison of game_result() on the final hand values
Compare(player_value, dealer_value) ==
  IF player_value > 21 THEN "loss"
  ELSE IF dealer_value > 21 \/ player_value > dealer_value THEN "win"
  ELSE IF player_value = dealer_value THEN "draw"
  ELSE "loss"

\* game_result() whose dealer also draws on 17
game_result_hit17(d, ph, dh) ==
  LET da == dealer_action_hit17(d, dh) IN
  [ok |-> da.ok, deck |-> da.deck, dealer_hand |-> da.dealer_hand, drawn |-> da.drawn,
   result |-> Compare(hand_value(ph), hand_value(da.dealer_hand))]

\* game_result(): self.dealer_action(), then the comparison
game_result(d, ph, dh) ==
  LET da == dealer_action(d, dh) IN
  [ok |-> da.ok, deck |-> da.deck, dealer_hand |-> da.dealer_hand, drawn |-> da.drawn,
   result |-> Compare(hand_value(ph), hand_value(da.dealer_hand))]

\* dealer card index of the Q-Learning agent (qlearning.py:106, :154) and of
\* MonteCarloWithExploringStarts.play (montecarlo.py:108-114)
DealerCard(dh) ==
  LET n == dh[1].number IN
  IF n \in {"J", "Q", "K"} THEN 10 ELSE IF n = "A" THEN 11 ELSE int(n)

(***************************************************************************)
(* Python helpers                                                          *)
(***************************************************************************)
\* round(n / d) of Python 3: to nearest, ties to even
round(n, d) ==
  LET q == n \div d
      r == n % d IN
  IF 2 * r < d THEN q
  ELSE IF 2 * r > d THEN q + 1
  ELSE IF q % 2 = 0 THEN q ELSE q + 1

Get(d, k, default) == IF k \in DOMAIN d THEN d[k] ELSE default
Touch(d, k, factory) == IF k \in DOMAIN d THEN d ELSE d @@ (k :> factory)

\* a read that leaves the default behind, as dict.setdefault(key, default) does
DictGet_setdefault(d, k, default) ==
  [value |-> Get(d, k, default), dict |-> Touch(d, k, default)]

\* dict.get(key, default): the value read and the dict afterwards (no insertion)
DictGet(d, k, default) == [value |-> Get(d, k, default), dict |-> d]

\* defaultdict.__getitem__: the value read and the dict afterwards (a missing
\* key is inserted with the factory value)
DefaultDictItem(d, k, factory) ==
  [value |-> Get(d, k, factory), dict |-> Touch(d, k, factory)]

\* d[k] = v
Put(d, k, v) == IF k \in DOMAIN d THEN [d EXCEPT ![k] = v] ELSE d @@ (k :> v)

Empty == [k \in {} |-> 0]

(***************************************************************************)
(* MonteCarloWithExploringStarts: tables                                   *)
(*   mcQ[state] is the inner dict in insertion order, a sequence of        *)
(*   <<action, sum, len>> standing for Q[state][action] = sum / len.       *)
(***************************************************************************)
RECURSIVE Sum(_)
Sum(list) == IF list = <<>> THEN 0 ELSE Head(list) + Sum(Tail(list))

\* Q[state][action] = v on the inner dict
InnerPut(inner, a, v) ==
  IF \E i \in DOMAIN inner : inner[i][1] = a
  THEN [i \in DOMAIN inner |-> IF inner[i][1] = a THEN <<a, v[1], v[2]>> ELSE inner[i]]
  ELSE Append(inner, <<a, v[1], v[2]>>)

\* x.sum / x.len > y.sum / y.len
MeanGT(x, y) == x[2] * y[3] > y[2] * x[3]

\* the key inserted first, whatever its value
ArgMax_first(inner) == inner[1][1]

\* max(inner, key=inner.get): the first key, in insertion order, of maximal value
ArgMax(inner) ==
  LET best == CHOOSE i \in DOMAIN inner :
                /\ \A j \in DOMAIN inner : ~MeanGT(inner[j], inner[i])
                /\ \A j \in 1..(i - 1) : MeanGT(inner[i], inner[j])
  IN inner[best][1]

\* state tuple of generate_episode (montecarlo.py:30, :38)
EpisodeState(ph, dh) ==
  <<hand_value(ph), dh[1].number, "A" \in {ph[i].number : i \in DOMAIN ph}>>

RECURSIVE UpdateLoop(_, _, _, _)
\* for state, action in episode: (montecarlo.py:78-82), from pair i on
UpdateLoop(t, epi, i, G) ==
  IF i > Len(epi) THEN t
  ELSE LET st == epi[i][1]
           a == epi[i][2]
           rets == Put(t.returns, <<st, a>>, Append(Get(t.returns, <<st, a>>, <<>>), G))
           list == rets[<<st, a>>]
           q == Put(t.Q, st, InnerPut(Get(t.Q, st, <<>>), a, <<Sum(list), Len(list)>>))
           pol == Put(t.policy, st, ArgMax(q[st]))
       IN UpdateLoop([Q |-> q, returns |-> rets, policy |-> pol], epi, i + 1, G)

(***************************************************************************)
(* BlackjackQLearning: table                                               *)
(***************************************************************************)
\* alpha = 0.1, gamma = 0.9, in tenths
alpha10 == 1
gamma10 == 9
\* a table with rows for the sums up to 21 only
QShape_to21 == <<22, 12, 2, 2>>

\* np.zeros((33, 12, 2, 2))
QShape == <<33, 12, 2, 2>>

InBounds(idx) == \A i \in 1..4 : idx[i] >= -QShape[i] /\ idx[i] < QShape[i]
\* numpy indexing: a negative index counts from the end
Norm(idx) == [i \in 1..4 |-> IF idx[i] < 0 THEN idx[i] + QShape[i] ELSE idx[i]]
QAt(q, idx) == Get(q, Norm(idx), 0)
QPut(q, idx, v) ==
  IF v = 0 THEN [k \in DOMAIN q \ {Norm(idx)} |-> q[k]] ELSE Put(q, Norm(idx), v)

Max(a, b) == IF a > b THEN a ELSE b

\* the exploit branch of choose_action (qlearning.py:48)
Greedy(q, ps, dc, ua) ==
  IF QAt(q, <<ps, dc, ua, 0>>) > QAt(q, <<ps, dc, ua, 1>>) THEN "hit" ELSE "stay"

\* choose_action: explore is np.random.uniform(0, 1) < epsilon, pick is
\* np.random.choice(["hit", "stay"])
choose_action(q, ps, dc, ua, explore, pick) ==
  IF explore THEN pick ELSE Greedy(q, ps, dc, ua)

\* update() that writes the new value into the cell of the next state
update_next_cell(q, ps, dc, ua, act, reward, nps, ndc, nua) ==
  LET action_idx == IF act = "hit" THEN 0 ELSE 1
      old_value == QAt(q, <<ps, dc, ua, action_idx>>)
      future_max == Max(QAt(q, <<nps, ndc, nua, 0>>), QAt(q, <<nps, ndc, nua, 1>>))
  IN QPut(q, <<nps, ndc, nua, action_idx>>,
          old_value + (alpha10 * (10 * reward * QScale + gamma10 * future_max
                                  - 10 * old_value)) \div 100)

\* update(): the Q table after the call; reward is an integer, entries are
\* fixed-point with QScale units
update(q, ps, dc, ua, act, reward, nps, ndc, nua) ==
  LET action_idx == IF act = "hit" THEN 0 ELSE 1
      old_value == QAt(q, <<ps, dc, ua, action_idx>>)
      future_max == Max(QAt(q, <<nps, ndc, nua, 0>>), QAt(q, <<nps, ndc, nua, 1>>))
  IN QPut(q, <<ps, dc, ua, action_idx>>,
          old_value + (alpha10 * (10 * reward * QScale + gamma10 * future_max
                                  - 10 * old_value)) \div 100)

\* the indexes update() uses are inside the table
UpdateInBounds(ps, dc, ua, nps, ndc, nua) ==
  InBounds(<<ps, dc, ua, 0>>) /\ InBounds(<<nps, ndc, nua, 0>>)

(***************************************************************************)
(* Random inputs of the games of a train() call                            *)
(***************************************************************************)
\* largest argument of train() the model passes
MaxEpisodes == 51

ShufflesFor(e) == IF e < VariedGames THEN TrainShuffles ELSE {TailShuffle}
\* random.choice(["hit", "stay"]) of generate_episode
StartsFor(e) == IF e < VariedGames THEN {"hit", "stay"} ELSE {"stay"}
\* np.random.uniform(0, 1) < self.epsilon
ExploreFor(e) == IF e < VariedGames THEN BOOLEAN ELSE {FALSE}

(***************************************************************************)
(* Init                                                                    *)
(***************************************************************************)
NoGame ==
  /\ deck = <<>> /\ player_hand = <<>> /\ dealer_hand = <<>>
  /\ dealt = <<>> /\ pa_calls = 0 /\ starts = 0

NoLocals ==
  /\ status = "none" /\ action = "none" /\ player_sum = 0 /\ usable_ace = 0
  /\ dealer_card = 0 /\ new_player_sum = 0 /\ new_usable_ace = 0 /\ episode = <<>>
  /\ updates = <<>>

NoCall ==
  /\ op = "none" /\ episodes = 0 /\ one_percent = 0 /\ ep = 0 /\ games = 0
  /\ raised = "none" /\ result = "none"

NotEvaluated == [done |-> FALSE, hand |-> <<>>, value |-> 0, ql |-> 0, mc |-> 0]

\* MonteCarloWithExploringStarts.__init__ / BlackjackQLearning.__init__
NewAgent ==
  /\ trained = FALSE
  /\ Q = Empty /\ mcQ = Empty /\ returns = Empty /\ policy = Empty

Init ==
  /\ agent \in {"mc", "ql"}
  /\ NewAgent
  /\ pc = "idle"
  /\ NoCall /\ NoGame /\ NoLocals
  /\ hand = <<>> /\ evaluated = NotEvaluated

ClearGame ==
  /\ deck' = <<>> /\ player_hand' = <<>> /\ dealer_hand' = <<>>
  /\ dealt' = <<>> /\ pa_calls' = 0 /\ starts' = 0

ClearLocals ==
  /\ status' = "none" /\ action' = "none" /\ player_sum' = 0 /\ usable_ace' = 0
  /\ dealer_card' = 0 /\ new_player_sum' = 0 /\ new_usable_ace' = 0 /\ episode' = <<>>
  /\ updates' = <<>>

ClearCall ==
  /\ op' = "none" /\ episodes' = 0 /\ one_percent' = 0 /\ ep' = 0 /\ games' = 0
  /\ raised' = "none" /\ result' = "none"

\* the call ends with exception e
Fail(e) ==
  /\ raised' = e
  /\ pc' = "returned"
  /\ UNCHANGED <<agent, trained, tables, op, episodes, one_percent, ep, games, result,
                 gameVars, locals, handVars>>

(***************************************************************************)
(* train(): both agents                                                    *)
(***************************************************************************)
\* train(episodes): one_percent = round(episodes / 100)
Train(n) ==
  /\ pc = "idle"
  /\ ~trained
  /\ op' = "train"
  /\ episodes' = n
  /\ one_percent' = round(n, 100)
  /\ ep' = 0
  /\ games' = 0
  /\ raised' = "none"
  /\ result' = "none"
  /\ pc' = "train_loop"
  /\ UNCHANGED <<agent, trained, tables, gameVars, locals, handVars>>

\* for ep in range(episodes): game = BlackjackGame()
\* (the locals of the previous game are dead here and are cleared)
TrainNewGame ==
  /\ pc = "train_loop"
  /\ ep < episodes
  /\ \E sh \in ShufflesFor(ep) : deck' = sh
  /\ player_hand' = <<>>
  /\ dealer_hand' = <<>>
  /\ dealt' = <<>>
  /\ pa_calls' = 0
  /\ starts' = 0
  /\ ClearLocals
  /\ pc' = "train_start"
  /\ UNCHANGED <<agent, trained, tables, callVars, handVars>>

\* start_game() on the deck d
start_game(d) ==
  [player_hand |-> SubSeq(Pops(d, 4), 1, 2),
   dealer_hand |-> SubSeq(Pops(d, 4), 3, 4),
   deck |-> Rest(d, 4)]

\* game.start_game(); if ep % one_percent == 0: ...; and, for Q-Learning, the
\* dealer card and status = "continue" (qlearning.py:98-107, montecarlo.py:72-75)
TrainStartGame ==
  /\ pc = "train_start"
  /\ IF Len(deck) < 4 THEN Fail("IndexError")
     ELSE LET g == start_game(deck) IN
          /\ player_hand' = g.player_hand
          /\ dealer_hand' = g.dealer_hand
          /\ deck' = g.deck
          /\ dealt' = dealt \o Pops(deck, 4)
          /\ starts' = starts + 1
          /\ IF one_percent = 0
             THEN /\ raised' = "ZeroDivisionError"
                  /\ pc' = "returned"
                  /\ UNCHANGED locals
             ELSE /\ raised' = raised
                  /\ IF agent = "ql"
                     THEN /\ dealer_card' = DealerCard(g.dealer_hand)
                          /\ status' = "continue"
                          /\ pc' = "ql_loop"
                          /\ UNCHANGED <<action, player_sum, usable_ace, new_player_sum,
                                         new_usable_ace, episode, updates>>
                     ELSE /\ pc' = "mc_episode"
                          /\ UNCHANGED locals
          /\ UNCHANGED <<agent, trained, tables, op, episodes, one_percent, ep, games,
                         result, pa_calls, handVars>>

\* for loop exhausted: train() returns
TrainReturn ==
  /\ pc = "train_loop"
  /\ ep >= episodes
  /\ pc' = "returned"
  /\ UNCHANGED <<agent, trained, tables, callVars, gameVars, locals, handVars>>

(***************************************************************************)
(* MonteCarloWithExploringStarts.train: generate_episode and the update    *)
(***************************************************************************)
\* generate_episode, up to the while loop (montecarlo.py:28-32)
GenerateEpisodeStart ==
  /\ pc = "mc_episode"
  /\ IF Len(deck) < 4 THEN Fail("IndexError")
     ELSE LET g == start_game(deck) IN
          /\ player_hand' = g.player_hand
          /\ dealer_hand' = g.dealer_hand
          /\ deck' = g.deck
          /\ dealt' = dealt \o Pops(deck, 4)
          /\ starts' = starts + 1
          /\ \E a \in StartsFor(ep) :
               /\ action' = a
               /\ episode' = << <<EpisodeState(g.player_hand, g.dealer_hand), a>> >>
          /\ pc' = "mc_loop"
          /\ UNCHANGED <<agent, trained, tables, callVars, pa_calls, status, player_sum,
                         usable_ace, dealer_card, new_player_sum, new_usable_ace, updates,
                         handVars>>

\* one iteration of the while loop that hits (montecarlo.py:33-41)
GenerateEpisodeHit ==
  /\ pc = "mc_loop"
  /\ game_status(player_hand) = "continue"
  /\ action = "hit"
  /\ IF Len(deck) < 1 THEN Fail("IndexError")
     ELSE LET ph == Append(player_hand, deck[Len(deck)])
              state == EpisodeState(ph, dealer_hand)
              read == DefaultDictItem(policy, state, "None")
              a == IF read.value # "None" THEN read.value ELSE action
          IN /\ player_hand' = ph
             /\ deck' = Rest(deck, 1)
             /\ dealt' = Append(dealt, deck[Len(deck)])
             /\ pa_calls' = pa_calls + 1
             /\ policy' = read.dict
             /\ action' = a
             /\ episode' = Append(episode, <<state, a>>)
             /\ pc' = "mc_loop"
             /\ UNCHANGED <<agent, trained, Q, mcQ, returns, callVars, dealer_hand, starts,
                            status, player_sum, usable_ace, dealer_card, new_player_sum,
                            new_usable_ace, updates, handVars>>

\* the loop ends (status not "continue", or break): return episode, game.game_result()
GenerateEpisodeEnd ==
  /\ pc = "mc_loop"
  /\ ~(game_status(player_hand) = "continue" /\ action = "hit")
  /\ LET r == game_result(deck, player_hand, dealer_hand) IN
     IF ~r.ok THEN Fail("IndexError")
     ELSE /\ dealer_hand' = r.dealer_hand
          /\ deck' = r.deck
          /\ dealt' = dealt \o r.drawn
          /\ result' = r.result
          /\ pc' = "mc_update"
          /\ UNCHANGED <<agent, trained, tables, op, episodes, one_percent, ep, games,
                         raised, player_hand, pa_calls, starts, locals, handVars>>

\* G = 1 if result == "win" else -1 with the return drawn to zero by a draw
Return_draw_zero(r) == IF r = "win" THEN 1 ELSE IF r = "draw" THEN 0 ELSE -1

\* G = 1 if result == "win" else -1 (montecarlo.py:77)
Return(r) == IF r = "win" THEN 1 ELSE -1

\* G and the for loop over the episode (montecarlo.py:77-82); next ep
TrainUpdate ==
  /\ pc = "mc_update"
  /\ LET G == Return(result)
         t == UpdateLoop([Q |-> mcQ, returns |-> returns, policy |-> policy], episode, 1, G)
     IN /\ mcQ' = t.Q
        /\ returns' = t.returns
        /\ policy' = t.policy
  /\ ep' = ep + 1
  /\ games' = games + 1
  /\ pc' = "train_loop"
  /\ UNCHANGED <<agent, trained, Q, op, episodes, one_percent, raised, result, gameVars,
                 locals, handVars>>

(***************************************************************************)
(* BlackjackQLearning.train: one game                                      *)
(***************************************************************************)
\* player_action(a) whose hit deals no card
player_action_no_deal(a, ph, d) ==
  [player_hand |-> ph, deck |-> d, drawn |-> <<>>, status |-> game_status(ph)]

\* player_action(a) on the player hand ph and the deck d
player_action(a, ph, d) ==
  LET ph2 == IF a = "hit" THEN Append(ph, d[Len(d)]) ELSE ph IN
  [player_hand |-> ph2,
   deck |-> IF a = "hit" THEN Rest(d, 1) ELSE d,
   drawn |-> IF a = "hit" THEN <<d[Len(d)]>> ELSE <<>>,
   status |-> game_status(ph2)]

\* a reward that charges every step that does not reach 21
Reward_step_cost(st) == IF st = "player_blackjack" THEN 1 ELSE -1

\* reward of one step of the loop (qlearning.py:117-123)
Reward(st) ==
  IF st = "player_blackjack" THEN 1 ELSE IF st = "player_bust" THEN -1 ELSE 0

\* final_reward (qlearning.py:134)
FinalReward(r) == IF r = "win" THEN 1 ELSE IF r = "loss" THEN -1 ELSE 0

\* the arguments of one update() call, and the line of train() that made it
UpdateCall(ps, dc, ua, act, reward, nps, ndc, nua, line) ==
  [player_sum |-> ps, dealer_card |-> dc, usable_ace |-> ua, action |-> act,
   reward |-> reward, new_player_sum |-> nps, new_dealer_card |-> ndc,
   new_usable_ace |-> nua, line |-> line]

\* one iteration of the while loop (qlearning.py:109-130)
QTrainStep ==
  /\ pc = "ql_loop"
  /\ status = "continue"
  /\ \E explore \in ExploreFor(ep), pick \in {"hit", "stay"} :
       LET ps == hand_value(player_hand)
           ua == has_usable_ace(player_hand)
       IN IF ~explore /\ ~InBounds(<<ps, dealer_card, ua, 0>>) THEN Fail("IndexError")
          ELSE LET a == choose_action(Q, ps, dealer_card, ua, explore, pick) IN
               IF a = "hit" /\ Len(deck) < 1 THEN Fail("IndexError")
               ELSE LET g == player_action(a, player_hand, deck)
                        nps == hand_value(g.player_hand)
                        nua == has_usable_ace(g.player_hand)
                        reward == Reward(g.status)
                    IN IF reward # 0 /\ ~UpdateInBounds(ps, dealer_card, ua, nps, dealer_card, nua)
                       THEN Fail("IndexError")
                       ELSE /\ player_sum' = ps
                            /\ usable_ace' = ua
                            /\ action' = a
                            /\ player_hand' = g.player_hand
                            /\ deck' = g.deck
                            /\ dealt' = dealt \o g.drawn
                            /\ pa_calls' = pa_calls + 1
                            /\ status' = g.status
                            /\ new_player_sum' = nps
                            /\ new_usable_ace' = nua
                            /\ Q' = IF reward # 0
                                    THEN update(Q, ps, dealer_card, ua, a, reward, nps,
                                                dealer_card, nua)
                                    ELSE Q
                            /\ updates' = IF reward # 0
                                          THEN Append(updates,
                                                      UpdateCall(ps, dealer_card, ua, a, reward,
                                                                 nps, dealer_card, nua, 127))
                                          ELSE updates
                            /\ pc' = IF a = "stay" \/ g.status # "continue"
                                     THEN "ql_final" ELSE "ql_loop"
                            /\ UNCHANGED <<agent, trained, mcQ, returns, policy, callVars,
                                           dealer_hand, starts, dealer_card, episode,
                                           handVars>>

\* final_result, final_reward and the last update (qlearning.py:133-135); next ep
QTrainFinal ==
  /\ pc = "ql_final"
  /\ LET r == game_result(deck, player_hand, dealer_hand) IN
     IF ~r.ok \/ ~UpdateInBounds(player_sum, dealer_card, usable_ace, new_player_sum,
                                 dealer_card, new_usable_ace)
     THEN Fail("IndexError")
     ELSE LET final_reward == FinalReward(r.result)
          IN /\ dealer_hand' = r.dealer_hand
             /\ deck' = r.deck
             /\ dealt' = dealt \o r.drawn
             /\ result' = r.result
             /\ Q' = update(Q, player_sum, dealer_card, usable_ace, action, final_reward,
                            new_player_sum, dealer_card, new_usable_ace)
             /\ updates' = Append(updates,
                                   UpdateCall(player_sum, dealer_card, usable_ace, action,
                                              final_reward, new_player_sum, dealer_card,
                                              new_usable_ace, 135))
             /\ ep' = ep + 1
             /\ games' = games + 1
             /\ pc' = "train_loop"
             /\ UNCHANGED <<agent, trained, mcQ, returns, policy, op, episodes,
                            one_percent, raised, player_hand, pa_calls, starts, status,
                            action, player_sum, usable_ace, dealer_card, new_player_sum,
                            new_usable_ace, episode, handVars>>

(***************************************************************************)
(* play(): both agents                                                     *)
(***************************************************************************)
\* game = BlackjackGame()
PlayNewGame ==
  /\ pc = "idle"
  /\ op' = "play"
  /\ \E sh \in PlayShuffles : deck' = sh
  /\ pc' = "play_start"
  /\ UNCHANGED <<agent, trained, tables, episodes, one_percent, ep, games, raised, result,
                 player_hand, dealer_hand, dealt, pa_calls, starts, locals, handVars>>

\* game.start_game(); status = "continue"
PlayStartGame ==
  /\ pc = "play_start"
  /\ IF Len(deck) < 4 THEN Fail("IndexError")
     ELSE LET g == start_game(deck) IN
          /\ player_hand' = g.player_hand
          /\ dealer_hand' = g.dealer_hand
          /\ deck' = g.deck
          /\ dealt' = dealt \o Pops(deck, 4)
          /\ starts' = starts + 1
          /\ status' = "continue"
          /\ pc' = "play_loop"
          /\ UNCHANGED <<agent, trained, tables, callVars, pa_calls, action, player_sum,
                         usable_ace, dealer_card, new_player_sum, new_usable_ace, episode,
                         updates, handVars>>

\* one iteration of the while loop of MonteCarloWithExploringStarts.play
\* (montecarlo.py:105-124)
MCPlayStep ==
  /\ pc = "play_loop"
  /\ agent = "mc"
  /\ status = "continue"
  /\ LET ps == hand_value(player_hand)
         ua == MC_has_usable_ace(player_hand)
         dc == DealerCard(dealer_hand)
         hit_read == DictGet(mcQ, <<ps, dc, ua, 0>>, 0)
         stay_read == DictGet(hit_read.dict, <<ps, dc, ua, 1>>, 0)
         a == IF hit_read.value > stay_read.value THEN "hit" ELSE "stay"
     IN IF a = "hit" /\ Len(deck) < 1 THEN Fail("IndexError")
        ELSE LET g == player_action(a, player_hand, deck) IN
             /\ player_sum' = ps
             /\ usable_ace' = ua
             /\ dealer_card' = dc
             /\ mcQ' = stay_read.dict
             /\ action' = a
             /\ player_hand' = g.player_hand
             /\ deck' = g.deck
             /\ dealt' = dealt \o g.drawn
             /\ pa_calls' = pa_calls + 1
             /\ status' = g.status
             /\ pc' = IF a = "stay" \/ g.status # "continue" THEN "play_after"
                      ELSE "play_loop"
             /\ UNCHANGED <<agent, trained, Q, returns, policy, callVars, dealer_hand,
                            starts, new_player_sum, new_usable_ace, episode, updates,
                            handVars>>

\* one iteration of the while loop of BlackjackQLearning.play (qlearning.py:151-159)
QPlayStep ==
  /\ pc = "play_loop"
  /\ agent = "ql"
  /\ status = "continue"
  /\ \E explore \in BOOLEAN, pick \in {"hit", "stay"} :
       LET ps == hand_value(player_hand)
           ua == has_usable_ace(player_hand)
           dc == DealerCard(dealer_hand)
       IN IF ~explore /\ ~InBounds(<<ps, dc, ua, 0>>) THEN Fail("IndexError")
          ELSE LET a == choose_action(Q, ps, dc, ua, explore, pick) IN
               IF a = "hit" /\ Len(deck) < 1 THEN Fail("IndexError")
               ELSE LET g == player_action(a, player_hand, deck) IN
                    /\ player_sum' = ps
                    /\ usable_ace' = ua
                    /\ dealer_card' = dc
                    /\ action' = a
                    /\ player_hand' = g.player_hand
                    /\ deck' = g.deck
                    /\ dealt' = dealt \o g.drawn
                    /\ pa_calls' = pa_calls + 1
                    /\ status' = g.status
                    /\ pc' = IF a = "stay" \/ g.status # "continue" THEN "play_after"
                             ELSE "play_loop"
                    /\ UNCHANGED <<agent, trained, tables, callVars, dealer_hand, starts,
                                   new_player_sum, new_usable_ace, episode, updates,
                                   handVars>>

\* if status == "continue": game.dealer_action(output=True)
PlayDealer ==
  /\ pc = "play_after"
  /\ status = "continue"
  /\ LET da == dealer_action(deck, dealer_hand) IN
     IF ~da.ok THEN Fail("IndexError")
     ELSE /\ dealer_hand' = da.dealer_hand
          /\ deck' = da.deck
          /\ dealt' = dealt \o da.drawn
          /\ pc' = "play_result"
          /\ UNCHANGED <<agent, trained, tables, callVars, player_hand, pa_calls, starts,
                         locals, handVars>>

\* final_result = game.game_result(); return final_result
PlayResult ==
  /\ \/ pc = "play_result"
     \/ pc = "play_after" /\ status # "continue"
  /\ LET r == game_result(deck, player_hand, dealer_hand) IN
     IF ~r.ok THEN Fail("IndexError")
     ELSE /\ dealer_hand' = r.dealer_hand
          /\ deck' = r.deck
          /\ dealt' = dealt \o r.drawn
          /\ result' = r.result
          /\ games' = games + 1
          /\ pc' = "returned"
          /\ UNCHANGED <<agent, trained, tables, op, episodes, one_percent, ep, raised,
                         player_hand, pa_calls, starts, locals, handVars>>

\* the caller takes the outcome of the call; the game and the locals are gone
Discard ==
  /\ pc = "returned"
  /\ trained' = (trained \/ (op = "train" /\ raised = "none"))
  /\ pc' = "idle"
  /\ ClearCall /\ ClearGame /\ ClearLocals
  /\ UNCHANGED <<agent, tables, handVars>>

Next ==
  \/ \E n \in 1..MaxEpisodes : Train(n)
  \/ TrainNewGame
  \/ TrainStartGame
  \/ TrainReturn
  \/ GenerateEpisodeStart
  \/ GenerateEpisodeHit
  \/ GenerateEpisodeEnd
  \/ TrainUpdate
  \/ QTrainStep
  \/ QTrainFinal
  \/ PlayNewGame
  \/ PlayStartGame
  \/ MCPlayStep
  \/ QPlayStep
  \/ PlayDealer
  \/ PlayResult
  \/ Discard

Spec == Init /\ [][Next]_vars


(***************************************************************************)
(* SpecHands: hand_value and has_usable_ace on bounded hands               *)
(***************************************************************************)
\* the hands of at most MaxHandLen cards of one deck, in every order
Hands ==
  {CardsOf(r) : r \in {x \in UNION {[1..n -> Range(numbers)] : n \in 1..MaxHandLen} :
                         \A i \in DOMAIN x : Occurrences(x, i) <= Len(suits)}}

InitHands ==
  /\ agent = "none"
  /\ NewAgent
  /\ pc = "hands"
  /\ NoCall /\ NoGame /\ NoLocals
  /\ hand \in Hands
  /\ evaluated = NotEvaluated

\* BlackjackGame.hand_value(hand) and both has_usable_ace(hand)
Evaluate ==
  /\ pc = "hands"
  /\ ~evaluated.done
  /\ evaluated' = [done |-> TRUE, hand |-> hand, value |-> hand_value(hand),
                   ql |-> has_usable_ace(hand), mc |-> MC_has_usable_ace(hand)]
  /\ UNCHANGED <<agent, trained, tables, pc, callVars, gameVars, locals, hand>>

\* the caller reorders the hand: two neighbouring cards change places
Permute ==
  /\ pc = "hands"
  /\ \E i \in 1..(Len(hand) - 1) :
       /\ hand[i] # hand[i + 1]
       /\ hand' = [hand EXCEPT ![i] = hand[i + 1], ![i + 1] = hand[i]]
  /\ UNCHANGED <<agent, trained, tables, pc, callVars, gameVars, locals, evaluated>>

NextHands == Evaluate \/ Permute

SpecHands == InitHands /\ [][NextHands]_vars

(***************************************************************************)
(* SpecCalls: callers that pass an action they did not choose themselves:  *)
(* main() of blackjack.py, which runs the game loop of play() on the       *)
(* strings read from input(), and direct calls of BlackjackQLearning.update*)
(***************************************************************************)
\* largest number of player_action() calls of one main() game, and of
\* direct update() calls
MaxInputs == 3

\* what input("Enter an action (hit/stay): ") returns, and the action
\* argument of a direct update() call
Inputs == {"hit", "stay", "double"}

\* (player_sum, dealer_card, usable_ace) arguments of the direct update() calls
UpdateStates == {<<12, 10, 0>>, <<21, 11, 0>>}

InitCalls ==
  /\ agent \in {"main", "ql"}
  /\ NewAgent
  /\ pc = "idle"
  /\ NoCall /\ NoGame /\ NoLocals
  /\ hand = <<>> /\ evaluated = NotEvaluated

\* game = BlackjackGame() of main()
MainNewGame == agent = "main" /\ PlayNewGame

\* one iteration of the while loop of main() (blackjack.py:182-188)
MainStep ==
  /\ pc = "play_loop"
  /\ agent = "main"
  /\ status = "continue"
  /\ pa_calls < MaxInputs
  /\ \E a \in Inputs :
       IF a = "hit" /\ Len(deck) < 1 THEN Fail("IndexError")
       ELSE LET g == player_action(a, player_hand, deck) IN
            /\ action' = a
            /\ player_hand' = g.player_hand
            /\ deck' = g.deck
            /\ dealt' = dealt \o g.drawn
            /\ pa_calls' = pa_calls + 1
            /\ status' = g.status
            /\ pc' = IF a = "stay" \/ g.status # "continue" THEN "play_after"
                     ELSE "play_loop"
            /\ UNCHANGED <<agent, trained, tables, callVars, dealer_hand, starts,
                           player_sum, usable_ace, dealer_card, new_player_sum,
                           new_usable_ace, episode, updates, handVars>>

\* agent.update(player_sum, dealer_card, usable_ace, action, reward,
\* player_sum, dealer_card, usable_ace) called from outside train()
DirectUpdate ==
  /\ pc = "idle"
  /\ agent = "ql"
  /\ Len(updates) < MaxInputs
  /\ \E st \in UpdateStates, act \in Inputs, reward \in {-1, 1} :
       /\ Q' = update(Q, st[1], st[2], st[3], act, reward, st[1], st[2], st[3])
       /\ updates' = Append(updates, UpdateCall(st[1], st[2], st[3], act, reward,
                                                st[1], st[2], st[3], 50))
       /\ action' = act
  /\ UNCHANGED <<agent, trained, mcQ, returns, policy, pc, callVars, gameVars, status,
                 player_sum, usable_ace, dealer_card, new_player_sum, new_usable_ace,
                 episode, handVars>>

NextCalls ==
  \/ MainNewGame
  \/ PlayStartGame
  \/ MainStep
  \/ PlayDealer
  \/ PlayResult
  \/ DirectUpdate

SpecCalls == InitCalls /\ [][NextCalls]_vars

(***************************************************************************)
(* Properties                                                              *)
(***************************************************************************)
AceCount(h) == Cardinality({i \in DOMAIN h : h[i].number = "A"})
\* face value of a card that is not an ace
FaceValue(n) == IF n \in {"J", "Q", "K"} THEN 10 ELSE int(n)
RECURSIVE OthersSum(_)
\* sum of the face values of the cards of h that are not aces
OthersSum(h) ==
  IF h = <<>> THEN 0
  ELSE (IF Head(h).number = "A" THEN 0 ELSE FaceValue(Head(h).number)) + OthersSum(Tail(h))

\* C2: a hand with exactly one ace whose other cards sum to at most 10 has
\* has_usable_ace(hand) = 1, in the Q-Learning and in the Monte Carlo agent.
C2_UsableAceFlag ==
  (evaluated.done /\ AceCount(evaluated.hand) = 1 /\ OthersSum(evaluated.hand) <= 10)
    => (evaluated.ql = 1 /\ evaluated.mc = 1)

\* C7: hand_value depends only on the multiset of cards: a hand reordered in
\* any way has the value hand_value returned for the original order.
C7_HandValuePermutation ==
  evaluated.done => hand_value(hand) = evaluated.value

\* C7 witness: a soft hand that busts with its ace at 11 was evaluated and
\* then reordered
C7_Witness ==
  /\ evaluated.done
  /\ hand # evaluated.hand
  /\ AceCount(hand) = 1
  /\ OthersSum(hand) > 10
  /\ hand[1].number # evaluated.hand[1].number

\* a BlackjackGame object exists
HasGame == pc \notin {"idle", "hands"} /\ ~(pc = "train_loop" /\ ep = 0)

\* the mean the table of train() holds for (state, action), 0.0 when unseen
TableMean(q, st, a) ==
  IF st \in DOMAIN q /\ \E i \in DOMAIN q[st] : q[st][i][1] = a
  THEN q[st][CHOOSE i \in DOMAIN q[st] : q[st][i][1] = a]
  ELSE <<a, 0, 1>>

\* the table built by train() holds a mean for hit at the state of the game,
\* and it is strictly greater than the mean for stay
HitGreater ==
  LET st == EpisodeState(player_hand, dealer_hand) IN
  /\ st \in DOMAIN mcQ
  /\ \E i \in DOMAIN mcQ[st] : mcQ[st][i][1] = "hit"
  /\ MeanGT(TableMean(mcQ, st, "hit"), TableMean(mcQ, st, "stay"))

\* C1: MonteCarloWithExploringStarts.play() is greedy on the table of train():
\* when the table holds a strictly greater mean for hit than for stay at the
\* current state, play() chooses hit; so whenever it has chosen stay (the hand
\* is then still the hand of the decision), hit's mean is not greater.
C1_PlayGreedy ==
  (agent = "mc" /\ op = "play" /\ pc = "play_after" /\ action = "stay") => ~HitGreater

\* C3: train(n) with n >= 1 plays exactly n games and returns without raising.
C3_TrainPlaysAllGames ==
  (op = "train" /\ pc = "returned") => (raised = "none" /\ games = episodes)

\* C4: play() returns one of win, loss, draw, and when it returns the game is
\* terminal: the last action was stay or the player's value is >= 21, and the
\* dealer's value is >= 17.
C4_PlayTerminal ==
  (op = "play" /\ pc = "returned") =>
    /\ raised = "none"
    /\ result \in {"win", "loss", "draw"}
    /\ (action = "stay" \/ hand_value(player_hand) >= 21)
    /\ hand_value(dealer_hand) >= 17

\* C4 witness: play() of a trained Q-Learning agent has returned after two
\* hits, the second of which ended the player's turn
C4_Witness ==
  /\ op = "play" /\ pc = "returned" /\ trained /\ agent = "ql" /\ DOMAIN Q # {}
  /\ action = "hit" /\ Len(player_hand) >= 4

\* C5: play() never mutates learned state: Q of the Q-Learning agent and Q,
\* returns and policy of the Monte Carlo agent (key sets included) are the
\* same after every step of a play() call.
C5_PlayFrame ==
  [][op' = "play" => (Q' = Q /\ mcQ' = mcQ /\ returns' = returns /\ policy' = policy)]_vars

\* C5 witness: play() of a trained Monte Carlo agent has returned
C5_Witness ==
  /\ op = "play" /\ pc = "returned" /\ agent = "mc" /\ trained
  /\ DOMAIN mcQ # {} /\ DOMAIN returns # {} /\ DOMAIN policy # {}

\* game_result() has just returned on the game of the state
AfterGameResult ==
  /\ raised = "none"
  /\ \/ pc = "mc_update"
     \/ pc = "returned" /\ op = "play"
     \/ pc \in {"train_loop", "returned"} /\ op = "train" /\ ep > 0

\* C6: game_result() runs the dealer first, then with the final values p and d
\* returns loss if p > 21 (even if the dealer busts too), else win if d > 21 or
\* p > d, else draw if p = d, else loss.
C6_GameResult ==
  AfterGameResult =>
    LET p == hand_value(player_hand)
        d == hand_value(dealer_hand) IN
    /\ d >= 17
    /\ p > 21 => result = "loss"
    /\ (p <= 21 /\ (d > 21 \/ p > d)) => result = "win"
    /\ (p <= 21 /\ d <= 21 /\ p = d) => result = "draw"
    /\ (p <= 21 /\ d <= 21 /\ p < d) => result = "loss"

\* C6 witness: game_result() returned after the player and the dealer both bust
C6_Witness ==
  /\ AfterGameResult
  /\ hand_value(player_hand) > 21 /\ hand_value(dealer_hand) > 21
  /\ Len(dealer_hand) > 2

\* C8: a new game's deck holds 52 pairwise distinct cards, and after k
\* deal_card() calls it holds 52 - k cards, all distinct, none of them a card
\* already dealt.
C8_DeckInvariant ==
  HasGame =>
    /\ Len(deck) = 52 - Len(dealt)
    /\ \A i, j \in DOMAIN deck : i # j => deck[i] # deck[j]
    /\ \A i \in DOMAIN deck, j \in DOMAIN dealt : deck[i] # dealt[j]
    /\ \A i \in DOMAIN deck :
         deck[i].number \in Range(numbers) /\ deck[i].suit \in Range(suits)

\* C8 witness: a game on which start_game() ran twice and the player and the
\* dealer both drew
C8_Witness ==
  /\ HasGame /\ starts = 2 /\ Len(dealt) >= 11
  /\ Len(player_hand) > 2 /\ Len(dealer_hand) > 2

\* C9: once game_status() is player_bust or player_blackjack (a two-card 21
\* right after start_game included) no later player_action() call is made
\* on that game.
C9_NoActionAfterTerminal ==
  [][(HasGame /\ starts > 0 /\ game_status(player_hand) # "continue")
       => pa_calls' <= pa_calls]_vars

\* C10: player_action('stay'), wherever a caller invokes it after
\* start_game(), leaves the deck and both hands unchanged and returns
\* 'continue'.
C10_StayFrame ==
  [][(pa_calls' = pa_calls + 1 /\ action' = "stay")
       => /\ deck' = deck
          /\ player_hand' = player_hand
          /\ dealer_hand' = dealer_hand
          /\ status' = "continue"]_vars

\* C11: Monte Carlo updates are first-visit: no (state, action) pair occurs
\* twice in the episode generate_episode builds, so G is appended to
\* returns[(state, action)] at most once per episode.
C11_FirstVisit ==
  (agent = "mc" /\ op = "train") =>
    \A i, j \in DOMAIN episode : i # j => episode[i] # episode[j]

\* a training game of the Q-Learning agent has ended normally and is still
\* the game of the state
QGameOver ==
  agent = "ql" /\ op = "train" /\ raised = "none" /\ ep > 0
    /\ pc \in {"train_loop", "returned"}

\* C12: in one Q-Learning training game, update() is called inside the
\* player loop only for a step that ends in player_bust (reward -1) or
\* player_blackjack (reward +1), never for a hit that leaves the status
\* continue; after the loop exactly one more update() is made, with reward
\* +1 / -1 / 0 for win / loss / draw, on the last (player_sum, dealer_card,
\* usable_ace, action) decided.
C12_UpdateSchedule ==
  /\ [][(pc = "ql_loop" /\ updates' # updates) =>
          LET call == updates'[Len(updates')] IN
          /\ updates' = Append(updates, call)
          /\ call.line = 127
          /\ \/ status' = "player_bust" /\ call.reward = -1
             \/ status' = "player_blackjack" /\ call.reward = 1]_vars
  /\ []((agent = "ql" /\ pc \in {"ql_loop", "ql_final"}) =>
          \A i \in DOMAIN updates : updates[i].line # 135)
  /\ [](QGameOver =>
          LET last == updates[Len(updates)] IN
          /\ Len(updates) >= 1
          /\ \A i \in 1..(Len(updates) - 1) : updates[i].line = 127
          /\ last.line = 135
          /\ last.reward = (IF result = "win" THEN 1 ELSE IF result = "loss" THEN -1 ELSE 0)
          /\ <<last.player_sum, last.dealer_card, last.usable_ace, last.action>>
               = <<player_sum, dealer_card, usable_ace, action>>)
  /\ [][(pc = "ql_loop" /\ status' = "continue") => updates' = updates]_vars

\* C12 witness: a training game that hit to a bust has ended: one update in
\* the loop, one after it
C12_Witness ==
  /\ QGameOver /\ Len(updates) = 2 /\ updates[1].reward = -1 /\ action = "hit"
  /\ Len(player_hand) >= 4

\* (player_sum, dealer_card, usable_ace) is inside [0,33) x [0,12) x [0,2)
StateIndexOk(ps, dc, ua) == ps \in 0..32 /\ dc \in 0..11 /\ ua \in {0, 1}

\* C13: every index used on the Q-Learning table in train() and play() is
\* non-negative and inside the table: player_sum in 0..32 before and after
\* the action (after a bust too), dealer_card in 0..11, usable_ace and the
\* action index in {0, 1}; no access raises IndexError.
C13_IndexBounds ==
  agent = "ql" =>
    /\ raised # "IndexError"
    /\ StateIndexOk(player_sum, dealer_card, usable_ace)
    /\ StateIndexOk(new_player_sum, dealer_card, new_usable_ace)
    /\ \A i \in DOMAIN updates :
         /\ StateIndexOk(updates[i].player_sum, updates[i].dealer_card,
                         updates[i].usable_ace)
         /\ StateIndexOk(updates[i].new_player_sum, updates[i].new_dealer_card,
                         updates[i].new_usable_ace)
    /\ \A k \in DOMAIN Q : StateIndexOk(k[1], k[2], k[3]) /\ k[4] \in {0, 1}

\* C13 witness: update() was called with the sum of a bust hand as the next
\* state, and the table holds a learned entry
C13_Witness ==
  /\ agent = "ql" /\ op = "train" /\ DOMAIN Q # {}
  /\ \E i \in DOMAIN updates : updates[i].new_player_sum >= 26

\* a game has been created and game_result() has not returned on it yet
GameRunning ==
  pc \in {"train_start", "mc_episode", "mc_loop", "ql_loop", "ql_final",
          "play_start", "play_loop", "play_after", "play_result"}

\* how far the call has come in the code of one game
Stage(p) ==
  CASE p \in {"train_start", "play_start"} -> 1
    [] p \in {"mc_episode", "play_loop"} -> 2
    [] p \in {"mc_loop", "ql_loop", "play_after"} -> 3
    [] p \in {"ql_final", "play_result"} -> 4
    [] OTHER -> 5

\* C14: every game of train() and play() of either agent terminates, and
\* deal_card() is never reached with an empty deck (no IndexError), whatever
\* the shuffle and the agent's choices, the Monte Carlo training games that
\* deal the opening hands twice included: every step of a running game
\* either moves on in the code or repeats its loop with one card fewer on
\* the finite deck, so no game takes more steps than the deck has cards.
C14_GamesTerminate ==
  /\ [](raised # "IndexError")
  /\ [](HasGame => (Len(deck) >= 0 /\ Len(deck) + Len(dealt) = 52))
  /\ [][GameRunning =>
          \/ Stage(pc') > Stage(pc)
          \/ pc' = pc /\ Len(deck') < Len(deck)]_vars

\* C14 witness: a Monte Carlo training game with two opening deals in which
\* the player hit twice has reached its update after the dealer drew
C14_Witness ==
  /\ agent = "mc" /\ pc = "mc_update" /\ starts = 2 /\ raised = "none"
  /\ Len(player_hand) >= 4 /\ Len(dealer_hand) >= 3

\* C15: an action outside {hit, stay} given to player_action() or to
\* update() makes the call fail with an error, and the deck, the hands and
\* the value table are as before the call; it is not taken for a valid action.
C15_InvalidActionFails ==
  [][(action' \notin {"hit", "stay", "none"}
        /\ (pa_calls' = pa_calls + 1 \/ Len(updates') = Len(updates) + 1))
       => /\ raised' # "none"
          /\ deck' = deck
          /\ player_hand' = player_hand
          /\ dealer_hand' = dealer_hand
          /\ Q' = Q]_vars

\* C16: train() and play() of either agent call start_game() exactly once on
\* each BlackjackGame, so at every point of a game the player's hand, the
\* dealer's hand and the deck together hold all 52 cards.
C16_StartGameOnce ==
  HasGame =>
    /\ starts <= 1
    /\ (GameRunning /\ pc \notin {"train_start", "play_start"}) => starts = 1
    /\ starts >= 1 => Len(player_hand) + Len(dealer_hand) + Len(deck) = 52

\* the step is a dealer_action() call that returned: on its own in play(),
\* or as the first statement of game_result()
DealerActionStep ==
  /\ raised' = "none"
  /\ \/ pc = "mc_loop" /\ pc' = "mc_update"
     \/ pc = "ql_final" /\ pc' = "train_loop"
     \/ pc = "play_after" /\ pc' \in {"play_result", "returned"}
     \/ pc = "play_result" /\ pc' = "returned"

\* C17: dealer_action() draws exactly while the dealer's value is < 17: it
\* draws nothing at a value >= 17 (a soft 17 too), the dealer's value is
\* >= 17 when it returns, before each card it drew (the last one too) the
\* value was < 17, and the player's hand and the dealer's cards from before
\* the call (the first card among them) are unchanged.
C17_DealerAction ==
  [][DealerActionStep =>
       /\ hand_value(dealer_hand) >= 17 => (dealer_hand' = dealer_hand /\ deck' = deck)
       /\ hand_value(dealer_hand') >= 17
       /\ Len(dealer_hand') >= Len(dealer_hand)
       /\ \A k \in Len(dealer_hand)..(Len(dealer_hand') - 1) :
            hand_value(SubSeq(dealer_hand', 1, k)) < 17
       /\ SubSeq(dealer_hand', 1, Len(dealer_hand)) = dealer_hand
       /\ Len(deck') = Len(deck) - (Len(dealer_hand') - Len(dealer_hand))
       /\ player_hand' = player_hand]_vars

\* C17 witness: play() has returned on a game in which the dealer drew from a
\* soft 16 through a hard total below 17 to a stand
C17_Witness ==
  /\ op = "play" /\ pc = "returned" /\ raised = "none"
  /\ Len(dealer_hand) >= 4 /\ AceCount(dealer_hand) = 1
  /\ hand_value(SubSeq(dealer_hand, 1, 2)) = 16
  /\ hand_value(SubSeq(dealer_hand, 1, 3)) < 16
  /\ hand_value(dealer_hand) \in 17..21

\* number of times the pair p occurs in the episode epi
Visits(epi, p) == Cardinality({i \in DOMAIN epi : epi[i] = p})

\* C18: every entry of every returns[(state, action)] is +1 or -1; an episode
\* appends +1 when its game_result() was win and -1 when it was loss or draw,
\* to the pairs of the episode and to no other; and Q[state][action] is the
\* exact mean of returns[(state, action)] for every recorded pair.
C18_ReturnsAndMeans ==
  /\ [](\A p \in DOMAIN returns :
          /\ \A i \in DOMAIN returns[p] : returns[p][i] \in {1, -1}
          /\ p[1] \in DOMAIN mcQ
          /\ \E i \in DOMAIN mcQ[p[1]] :
               /\ mcQ[p[1]][i][1] = p[2]
               /\ mcQ[p[1]][i][2] = Sum(returns[p])
               /\ mcQ[p[1]][i][3] = Len(returns[p]))
  /\ [](\A st \in DOMAIN mcQ : Len(st) = 3 =>
          \A i \in DOMAIN mcQ[st] : <<st, mcQ[st][i][1]>> \in DOMAIN returns)
  /\ [][(pc = "mc_update" /\ pc' = "train_loop") =>
          LET G == IF result = "win" THEN 1 ELSE -1 IN
          /\ result \in {"win", "loss", "draw"}
          /\ DOMAIN returns' = DOMAIN returns \cup Range(episode)
          /\ \A p \in DOMAIN returns' :
               returns'[p] = Get(returns, p, <<>>) \o [i \in 1..Visits(episode, p) |-> G]]_vars

\* C18 witness: an episode that ended in a draw has just been recorded with
\* -1, after an episode that was won and recorded with +1
C18_Witness ==
  /\ agent = "mc" /\ pc = "train_loop" /\ result = "draw" /\ ep >= 2
  /\ episode # <<>>
  /\ \A i \in DOMAIN episode :
       returns[episode[i]][Len(returns[episode[i]])] = -1
  /\ \E p \in DOMAIN returns : returns[p][1] = 1

\* the action a has a mean recorded at st, and no action recorded at st has
\* a greater one
GreedyAt(st, a) ==
  /\ st \in DOMAIN mcQ
  /\ \E i \in DOMAIN mcQ[st] :
       /\ mcQ[st][i][1] = a
       /\ \A j \in DOMAIN mcQ[st] : ~MeanGT(mcQ[st][j], mcQ[st][i])

\* C19: after every Monte Carlo training episode, policy[state], where it is
\* not None, is an action whose mean Q[state][action] is >= the mean of every
\* other action recorded for that state, for the states the latest episode
\* did not visit too.
C19_PolicyGreedy ==
  \A st \in DOMAIN policy : policy[st] # "None" => GreedyAt(st, policy[st])

\* C19 witness: after a later episode the policy of a state that episode did
\* not visit is the action recorded second there, whose mean is strictly
\* greater than the mean of the action recorded first
C19_Witness ==
  /\ agent = "mc" /\ pc = "train_loop" /\ ep >= 3
  /\ \E st \in DOMAIN policy :
       /\ st \in DOMAIN mcQ
       /\ Len(mcQ[st]) = 2
       /\ MeanGT(mcQ[st][2], mcQ[st][1])
       /\ policy[st] = mcQ[st][2][1]
       /\ \A i \in DOMAIN episode : episode[i][1] # st

\* an ace of the hand h is counted as 11 by hand_value
SoftAce(h) == AceCount(h) >= 1 /\ OthersSum(h) + AceCount(h) + 10 <= 21

\* how the value v prints: the string '6' and the number 6 print differently,
\* as they are different keys of a Python dict
Repr(v) == ToString(v)

\* C20: every state key the Monte Carlo agent records in train() is the
\* triple (player hand value, numeric value 2..11 of the dealer's up-card
\* with J/Q/K as 10 and A as 11, flag that is true exactly when an ace of the
\* player's hand counts as 11), and it is the triple play() looks up.
C20_StateKey ==
  (agent = "mc" /\ op = "train" /\ pc = "mc_loop") =>
    LET st == episode[Len(episode)][1] IN
    /\ st[1] = hand_value(player_hand)
    /\ Repr(st[2]) = Repr(DealerCard(dealer_hand))
    /\ st[3] = SoftAce(player_hand)
    /\ (IF st[3] THEN 1 ELSE 0) = MC_has_usable_ace(player_hand)

\* the totals of h with each ace counted as 1 or as 11
Totals(h) == {OthersSum(h) + AceCount(h) + 10 * k : k \in 0..AceCount(h)}

\* the largest total of h that is <= 21, or the total with every ace as 1
BestTotal(h) ==
  IF \E t \in Totals(h) : t <= 21
  THEN CHOOSE t \in Totals(h) : t <= 21 /\ \A u \in Totals(h) : u <= 21 => u <= t
  ELSE OthersSum(h) + AceCount(h)

\* what a card adds to a soft hand: its face value; an ace adds 1, as a soft
\* hand already counts an ace as 11 and two aces at 11 exceed 21
CardValue(c) == IF c.number = "A" THEN 1 ELSE FaceValue(c.number)

DiffCells(q1, q2) == {k \in DOMAIN q1 \cup DOMAIN q2 : Get(q1, k, 0) # Get(q2, k, 0)}

\* the cell an update() call writes
CellOf(call) ==
  <<call.player_sum, call.dealer_card, call.usable_ace,
    IF call.action = "hit" THEN 0 ELSE 1>>

\* the cell of the last decision taken in the game
LastCell == <<player_sum, dealer_card, usable_ace, IF action = "hit" THEN 0 ELSE 1>>

Again == game_result(deck, player_hand, dealer_hand)

\* C23: once the dealer has played, dealer_action() and game_result() are
\* idempotent: the game_result() call of play() that follows its
\* dealer_action() call draws no card and leaves deck and hands unchanged,
\* and after any game_result() call a second one raises nothing, draws no
\* card, leaves deck and dealer hand as they are and returns the same label.
C23_Idempotent ==
  /\ [][(pc = "play_result" /\ pc' = "returned" /\ raised' = "none") =>
          /\ deck' = deck /\ dealer_hand' = dealer_hand
          /\ player_hand' = player_hand /\ dealt' = dealt
          /\ dealer_action(deck, dealer_hand).drawn = <<>>]_vars
  /\ []((op = "play" /\ pc = "returned" /\ raised = "none") =>
          /\ Again.ok /\ Again.drawn = <<>>
          /\ Again.deck = deck /\ Again.dealer_hand = dealer_hand
          /\ Again.result = result)

\* C23 witness: play() has returned a loss after the player stayed and the
\* dealer drew a card in dealer_action() and stands without a bust
C23_Witness ==
  /\ op = "play" /\ pc = "returned" /\ raised = "none"
  /\ status = "continue" /\ Len(dealer_hand) >= 3
  /\ hand_value(dealer_hand) \in 17..21 /\ result = "loss"

\* C24: every (state, action) pair of an episode of generate_episode is a
\* real decision: its state was observed while game_status() was continue,
\* so its player value is below 21; no pair is recorded for a state in which
\* the player has bust or reached 21.
C24_RealDecisions ==
  (agent = "mc" /\ op = "train") =>
    \A i \in DOMAIN episode : episode[i][1][1] < 21

====
